---- MODULE Spec2Model ----
(***************************************************************************)
(* Model of the ONTAP SAN storage driver (storage_drivers/ontap/           *)
(* ontap_san.go): Create with fallback over placement candidates, Resize   *)
(* with tolerance, Destroy and Publish, run against a storage controller   *)
(* that holds the FlexVols (Containers) and LUNs (Devices).                *)
(*                                                                         *)
(* Every driver call is one action.  The answer the controller gives to    *)
(* each remote call is drawn from the answers it can give in its current   *)
(* state; a call the controller answers with an error has no effect.       *)
(* Sizes are counted in units of the resize tolerance (SANResizeDelta).    *)
(***************************************************************************)
EXTENDS Integers, Sequences, FiniteSets, TLC

----------------------------------------------------------------------------
(* Bounds of the model *)

\* longest list of placement candidates the pool selector hands to Create
MaxCands == 3
\* largest size a caller asks for that the size limit still admits
MaxSize == 4
\* most the controller adds to a size when it rounds it up
MaxRound == 1
\* capacity of the channel the caller of GetVolumeExternalWrappers supplies
MaxChan == 1

----------------------------------------------------------------------------
(* Configuration *)

Names == {"vol1"}

\* tridentconfig.SANResizeDelta, one unit of size in this model
SANResizeDelta == 1

\* d.Config.CommonStorageDriverConfig.LimitVolumeSize
LimitVolumeSize == MaxSize

\* sizes a caller can ask for: the last one exceeds the limit
RequestSizes == 1..(MaxSize + 1)

\* the ordered candidate lists of getPoolsForCreate: aggregates are named by
\* their rank in the pool selector's order
CandidateLists == {[i \in 1..n |-> i] : n \in 1..MaxCands}

Rounds == 0..MaxRound

VARIABLES
    vols,          \* controller: the FlexVols, records [name, aggr, size]
    luns,          \* controller: the LUNs, records [vol, lun, size, mapped]
    driverContext, \* d.Config.DriverContext
    method,        \* the driver method that ran last
    args,          \* its arguments
    ret,           \* the error it returned, "nil" for success
    calls,         \* the remote calls (and host signals) it issued, in order
    createErrors,  \* Create: the per-candidate errors it collected
    volConfigSize, \* volConfig.Size as the call left it, 0: never written
    pre,           \* controller state and last report when the call started
    reported,      \* per volume: volConfig.Size of its last successful Resize
    procs,         \* callers that run a method at the same time: where each is
    enumerate,     \* GetVolumeExternalWrappers: where it is, and its locals
    channel        \* the channel it writes to, and what was received from it

vars == <<vols, luns, driverContext, method, args, ret, calls, createErrors,
          volConfigSize, pre, reported, procs, enumerate, channel>>

----------------------------------------------------------------------------
(* The controller *)

\* a bug: the LUN is put at a path of its own
lunPath_Other(name) == [vol |-> name, lun |-> "lun1"]

lunPath(name) == [vol |-> name, lun |-> "lun0"]

VolumeExists(vs, name) == \E v \in vs : v.name = name

VolumeOf(vs, name) == CHOOSE v \in vs : v.name = name

VolumeSize(vs, name) == VolumeOf(vs, name).size

LunExists(ls, path) == \E l \in ls : l.vol = path.vol /\ l.lun = path.lun

LunOf(ls, path) == CHOOSE l \in ls : l.vol = path.vol /\ l.lun = path.lun

\* answers of volume-create: a name is taken at most once on the SVM
VolumeCreateAnswers(vs, name) ==
    IF VolumeExists(vs, name) THEN {"failed", "JobExists"}
    ELSE {"passed", "failed", "JobExists"}

VolumeCreateApply(vs, name, aggregate, size) ==
    vs \cup {[name |-> name, aggr |-> aggregate, size |-> size]}

\* volume-size set: the controller sets at least the size asked for
VolumeSetSizeApply(vs, name, size, round) ==
    {IF v.name = name THEN [v EXCEPT !.size = size + round] ELSE v : v \in vs}

\* answers of lun-create: the path is free and its volume exists
LunCreateAnswers(vs, ls, path) ==
    IF VolumeExists(vs, path.vol) /\ ~LunExists(ls, path)
    THEN {"passed", "failed"} ELSE {"failed"}

\* the LUN is created with ActualSize = size + round
LunCreateApply(ls, path, size, round) ==
    ls \cup {[vol |-> path.vol, lun |-> path.lun, size |-> size + round,
              mapped |-> FALSE]}

LunDestroyApply(ls, path) ==
    {l \in ls : ~(l.vol = path.vol /\ l.lun = path.lun)}

LunResizeAnswers(ls, path) ==
    IF LunExists(ls, path) THEN {"passed", "failed"} ELSE {"failed"}

LunResizeApply(ls, path, size, round) ==
    {IF l.vol = path.vol /\ l.lun = path.lun
     THEN [l EXCEPT !.size = size + round] ELSE l : l \in ls}

LunMapApply(ls, path) ==
    {IF l.vol = path.vol /\ l.lun = path.lun
     THEN [l EXCEPT !.mapped = TRUE] ELSE l : l \in ls}

\* answers of volume-destroy
VolumeDestroyAnswers(vs, name) ==
    IF VolumeExists(vs, name) THEN {"passed", "failed", "transport"}
    ELSE {"EVOLUMEDOESNOTEXIST", "failed", "transport"}

\* deleting a FlexVol removes the LUNs in it
VolumeDestroyApplyVols(vs, name) == {v \in vs : v.name # name}

VolumeDestroyApplyLuns(ls, name) == {l \in ls : l.vol # name}

----------------------------------------------------------------------------
(* The state a driver call works on *)

Call(api, cand, answer) == [api |-> api, cand |-> cand, answer |-> answer]

MutatingApis == {"VolumeCreate", "LunCreate", "LunSetAttribute", "LunDestroy",
                 "VolumeSetSize", "LunResize", "VolumeDestroy",
                 "LunMapIfNotMapped", "LunRename", "VolumeRename"}

Begin(vs, ls, size) ==
    [vols |-> vs, luns |-> ls, ret |-> "nil", calls |-> <<>>, errs |-> <<>>,
     size |-> size]

Log(st, api, cand, answer) ==
    [st EXCEPT !.calls = Append(@, Call(api, cand, answer))]

Return(st, err) == [st EXCEPT !.ret = err]

----------------------------------------------------------------------------
(* Size checks *)

\* drivers.CheckVolumeSizeLimits: the requested size against limitVolumeSize
CheckVolumeSizeLimits(sizeBytes) == sizeBytes <= LimitVolumeSize

\* utils.VolumeSizeWithinTolerance
VolumeSizeWithinTolerance(requestedSize, currentSize, delta) ==
    LET sizeDiff == IF requestedSize >= currentSize
                    THEN requestedSize - currentSize
                    ELSE currentSize - requestedSize
    IN  sizeDiff <= delta

----------------------------------------------------------------------------
(* Aligning the FlexVol with the LUN's actual size *)

\* a bug: the FlexVol is resized only when the LUN is the smaller one
ReconcileNeeded_WhenSmaller(lunSize, initialVolumeSize) ==
    lunSize < initialVolumeSize

\* else-if of the first VolumeSize read: resize only when the sizes differ
ReconcileNeeded(lunSize, initialVolumeSize) == lunSize # initialVolumeSize

\* the size written to volConfig when the FlexVol resize failed
SizeOnResizeFailure(initialVolumeSize, lunSize) == initialVolumeSize

\* a bug: a failure of the alignment is returned to the caller
Warning_Fatal(st) == Return(st, "failed to align volume size")

\* log.Warning(...): the failure is logged and the call goes on
Warning(st) == st

\* a bug: the LUN's size is reported for the resized FlexVol
AdjustedSize_LunSize(adjustedVolumeSize, lunSize) == lunSize

\* the size written to volConfig when the resized FlexVol was read again
AdjustedSize(adjustedVolumeSize, lunSize) == adjustedVolumeSize

\* Every outcome of the block "Resize FlexVol to be the same size or bigger
\* than LUN": no failure in it is returned, each is logged as a warning.
Reconcile(st, name, cand, lunSize) ==
    LET initialVolumeSize == VolumeSize(st.vols, name)
        readFailed == Warning(Log(st, "VolumeSize", cand, "failed"))
        read == Log(st, "VolumeSize", cand, "passed")
        resizeFailed ==
            Warning([Log(read, "VolumeSetSize", cand, "failed")
                EXCEPT !.size = SizeOnResizeFailure(initialVolumeSize, lunSize)])
        Resized(round) ==
            Log([read EXCEPT !.vols =
                     VolumeSetSizeApply(@, name, lunSize, round)],
                "VolumeSetSize", cand, "passed")
        ReRead(s) ==
            {Warning(Log(s, "VolumeSize", cand, "failed")),
             [Log(s, "VolumeSize", cand, "passed")
                 EXCEPT !.size = AdjustedSize(VolumeSize(s.vols, name), lunSize)]}
    IN  {readFailed}
        \cup (IF ReconcileNeeded(lunSize, initialVolumeSize)
              THEN {resizeFailed}
                   \cup UNION {ReRead(Resized(round)) : round \in Rounds}
              ELSE {read})

----------------------------------------------------------------------------
(* Create *)

\* a bug: the answer of the existence probe is not looked at
VolumeExistsResult_Ignored(volExists) == "proceed"

\* a bug: a size over the limit is created all the same
SizeLimitsDisposition_Ignored(withinLimits) == "proceed"

\* What Create does with the result of CheckVolumeSizeLimits, made after
\* the probe for an existing volume
SizeLimitsDisposition(withinLimits) ==
    IF withinLimits THEN "proceed" ELSE "return"

\* "If the volume already exists, bail out"
VolumeExistsResult(volExists) ==
    IF volExists THEN "VolumeExistsError" ELSE "proceed"

\* a bug: the pool is used although its limits are exceeded
AggregateLimitsDisposition_Ignored(answer) == "create"

\* What Create does with the result of checkAggregateLimits
AggregateLimitsDisposition(answer) ==
    IF answer = "passed" THEN "create" ELSE "continue"

\* a bug: "Job exists" is handled like any other error
VolumeCreateDisposition_AnyError(answer) ==
    IF answer = "passed" THEN "created" ELSE "continue"

\* What Create does with the answer to VolumeCreate
VolumeCreateDisposition(answer) ==
    IF answer = "passed" THEN "created"
    ELSE IF answer = "JobExists" THEN "return nil"
    ELSE "continue"

\* a bug: the error of LunCreate is not looked at
LunCreateDisposition_Ignored(answer) == "created"

\* What Create does with the answer to LunCreate
LunCreateDisposition(answer) ==
    IF answer = "passed" THEN "created" ELSE "continue"

\* a bug: the error is logged and not collected
AppendCreateError_Dropped(errs, aggregate) == errs

\* createErrors = append(createErrors, ...): one entry for the candidate
AppendCreateError(errs, aggregate) == Append(errs, aggregate)

\* a bug: a failure to save the file system type is only logged
LunSetAttributeDisposition_Warning(answer) == "proceed"

\* What Create does with the answer to LunSetAttribute for the file system
\* type
LunSetAttributeDisposition(answer) ==
    IF answer = "passed" THEN "proceed" ELSE "destroy LUN and return"

\* From the LUN attributes to the return of Create, for the candidate whose
\* FlexVol and LUN were created.
CreateTail(st, name, cand, lunSize) ==
    LET FsType(answer) == Log(st, "LunSetAttribute", cand, answer)
        \* defer d.API.LunDestroy(lunPath): its answer is not looked at
        Destroyed(s) ==
            Log([s EXCEPT !.luns = LunDestroyApply(@, lunPath(name))],
                "LunDestroy", cand, "passed")
        NotDestroyed(s) == Log(s, "LunDestroy", cand, "failed")
        ContextTried(s) == {Log(s, "LunSetAttribute", cand, answer) :
                               answer \in {"passed", "failed"}}
        AfterFsType(answer) ==
            IF LunSetAttributeDisposition(answer) = "proceed"
            THEN UNION {Reconcile(s, name, cand, lunSize) :
                           s \in ContextTried(FsType(answer))}
            ELSE {Return(Destroyed(FsType(answer)),
                         "error saving file system type"),
                  Return(NotDestroyed(FsType(answer)),
                         "error saving file system type")}
    IN  UNION {AfterFsType(answer) : answer \in {"passed", "failed"}}

\* a bug: the pools are tried last to first
PoolAt_Reversed(physicalPools, i) == physicalPools[Len(physicalPools) + 1 - i]

\* "for _, physicalPool := range physicalPools": the i-th pool tried
PoolAt(physicalPools, i) == physicalPools[i]

RECURSIVE CreateLoop(_, _, _, _, _)
\* The loop over physicalPools from its i-th round on: the set of its
\* outcomes.  A call is logged with the aggregate it is made for.
CreateLoop(st, name, sizeBytes, physicalPools, i) ==
    IF i > Len(physicalPools)
    THEN {Return(st, "BackendIneligibleError")}
    ELSE
    LET aggregate == PoolAt(physicalPools, i)
        Continue(s) ==
            CreateLoop([s EXCEPT !.errs = AppendCreateError(@, aggregate)],
                       name, sizeBytes, physicalPools, i + 1)
        AfterLunCreate(s, answer, round) ==
            IF LunCreateDisposition(answer) = "continue"
            THEN Continue(Log(s, "LunCreate", aggregate, answer))
            ELSE CreateTail(
                     Log([s EXCEPT !.luns =
                              LunCreateApply(@, lunPath(name), sizeBytes, round)],
                         "LunCreate", aggregate, answer),
                     name, aggregate, sizeBytes + round)
        AfterVolumeCreate(s, answer) ==
            LET tried == Log(s, "VolumeCreate", aggregate, answer)
                created == [tried EXCEPT !.vols =
                               VolumeCreateApply(@, name, aggregate, sizeBytes)]
            IN  CASE VolumeCreateDisposition(answer) = "return nil" ->
                        {Return(tried, "nil")}
                  [] VolumeCreateDisposition(answer) = "continue" ->
                        Continue(tried)
                  [] OTHER ->
                        UNION {AfterLunCreate(created, a, round) :
                                  a \in LunCreateAnswers(created.vols,
                                                         created.luns,
                                                         lunPath(name)),
                                  round \in Rounds}
        AfterLimits(limits) ==
            IF AggregateLimitsDisposition(limits) = "continue"
            THEN Continue(Log(st, "checkAggregateLimits", aggregate, limits))
            ELSE UNION {AfterVolumeCreate(
                            Log(st, "checkAggregateLimits", aggregate, limits),
                            answer) :
                        answer \in VolumeCreateAnswers(st.vols, name)}
    IN  UNION {AfterLimits(limits) : limits \in {"passed", "failed"}}

\* Every outcome of Create(volConfig, storagePool, volAttributes) for a
\* well-formed request of sizeBytes that getPoolsForCreate answers with
\* physicalPools
CreateOutcomes(vs, ls, name, sizeBytes, physicalPools) ==
    LET st == Begin(vs, ls, sizeBytes)
        probed == Log(st, "VolumeExists", 0, "passed")
    IN  {Return(Log(st, "VolumeExists", 0, "failed"),
                "error checking for existing volume")}
        \cup (IF VolumeExistsResult(VolumeExists(vs, name)) # "proceed"
              THEN {Return(probed, VolumeExistsResult(VolumeExists(vs, name)))}
              ELSE IF SizeLimitsDisposition(
                          CheckVolumeSizeLimits(sizeBytes)) = "return"
              THEN {Return(probed, "size limit exceeded")}
              ELSE CreateLoop(probed, name, sizeBytes, physicalPools, 1))

----------------------------------------------------------------------------
(* Resize *)

\* a bug: the shrink check is lost
ShrinkRequested_Never(sizeBytes, volSizeBytes) == FALSE

\* "if sizeBytes < volSizeBytes": the driver does not shrink
ShrinkRequested(sizeBytes, volSizeBytes) == sizeBytes < volSizeBytes

\* a bug: the requested size is reported
SameSizeReport_Requested(sizeBytes, volSize) == sizeBytes

\* the size Resize leaves in volConfig when the sizes count as the same
SameSizeReport(sizeBytes, volSize) == volSize

\* the size Resize leaves in volConfig after a resize it carried out
ResizedSize(returnSize, reconciledSize) == returnSize

\* a bug: the limits of the aggregate are not enforced
AggregateLimitsForFlexvolDisposition_Ignored(answer) == "proceed"

\* What Resize does with the result of checkAggregateLimitsForFlexvol
AggregateLimitsForFlexvolDisposition(answer) ==
    IF answer = "passed" THEN "proceed" ELSE "return"

\* a bug: the FlexVol is aligned although the LUN was not resized
LunResizeDisposition_Ignored(answer) == "align"

\* What Resize does with the answer to LunResize
LunResizeDisposition(answer) ==
    IF answer = "passed" THEN "align" ELSE "return"

\* MaxResizeSize values the controller can report for a LUN
LunMaxSizes == 0..(MaxSize + 1)

\* From "Resize FlexVol" to the return of Resize
ResizeOperations(st, name, sizeBytes) ==
    LET volFailed == Log(st, "VolumeSetSize", 0, "failed")
        VolResized(round) ==
            Log([st EXCEPT !.vols =
                     VolumeSetSizeApply(@, name, sizeBytes, round)],
                "VolumeSetSize", 0, "passed")
        LunResized(s, answer, round) ==
            Log([s EXCEPT !.luns =
                     IF answer = "passed"
                     THEN LunResizeApply(@, lunPath(name), sizeBytes, round)
                     ELSE @],
                "LunResize", 0, answer)
        AfterLunResize(s, answer, round) ==
            IF LunResizeDisposition(answer) = "return"
            THEN {Return(LunResized(s, answer, round),
                         "volume resize failed")}
            ELSE {[r EXCEPT !.size = ResizedSize(sizeBytes + round, r.size)] :
                     r \in Reconcile(LunResized(s, answer, round), name, 0,
                                     sizeBytes + round)}
        AfterVolResize(s) ==
            UNION {AfterLunResize(s, answer, round) :
                      answer \in LunResizeAnswers(s.luns, lunPath(name)),
                      round \in Rounds}
    IN  {Return(volFailed, "volume resize failed")}
        \cup UNION {AfterVolResize(VolResized(round)) : round \in Rounds}

\* The LUN geometry check, made unless the controller has LunGeometrySkip
GeometryCheck(st, name, sizeBytes) ==
    LET failed == Log(st, "LunGetGeometry", 0, "failed")
        read == Log(st, "LunGetGeometry", 0, "passed")
        Checked(lunMaxSize) ==
            IF lunMaxSize < sizeBytes
            THEN {Return(read, "larger than LUN's maximum capacity")}
            ELSE ResizeOperations(read, name, sizeBytes)
    IN  {Return(failed, "volume resize failed")}
        \cup (IF LunExists(st.luns, lunPath(name))
              THEN UNION {Checked(lunMaxSize) : lunMaxSize \in LunMaxSizes}
              ELSE {})

\* Every outcome of Resize(volConfig, sizeBytes)
ResizeOutcomes(vs, ls, name, sizeBytes) ==
    LET st == Begin(vs, ls, 0)
        probed == Log(st, "VolumeExists", 0, "passed")
        sized == Log(probed, "VolumeSize", 0, "passed")
        volSize == VolumeSize(vs, name)
        AfterLimits(answer) ==
            LET limited == Log(sized, "checkAggregateLimitsForFlexvol", 0,
                               answer)
            IN  IF AggregateLimitsForFlexvolDisposition(answer) = "return"
                THEN {Return(limited, "aggregate limits exceeded")}
                ELSE IF ~CheckVolumeSizeLimits(sizeBytes)
                THEN {Return(limited, "size limit exceeded")}
                ELSE ResizeOperations(limited, name, sizeBytes)
                     \cup GeometryCheck(limited, name, sizeBytes)
    IN  {Return(Log(st, "VolumeExists", 0, "failed"),
                "error occurred checking for existing volume")}
        \cup
        (IF ~VolumeExists(vs, name)
         THEN {Return(probed, "volume does not exist")}
         ELSE
           {Return(Log(probed, "VolumeSize", 0, "failed"),
                   "error occurred when checking volume size")}
           \cup
           (IF VolumeSizeWithinTolerance(sizeBytes, volSize, SANResizeDelta)
            THEN {[sized EXCEPT !.size = SameSizeReport(sizeBytes, volSize)]}
            ELSE IF ShrinkRequested(sizeBytes, volSize)
            THEN {Return(sized, "requested size is less than existing volume size")}
            ELSE UNION {AfterLimits(answer) :
                           answer \in {"passed", "failed"}}))

----------------------------------------------------------------------------
(* Destroy *)

\* a bug: Destroy goes on without the volume
AlreadyDeleted_Never(volExists) == FALSE

\* "Volume already deleted, skipping destroy."
AlreadyDeleted(volExists) == ~volExists

\* a bug: the mapping to the igroup is never found
LunMapped_Never(ls, path) == FALSE

\* lunID >= 0: the LUN is mapped to the configured igroup
LunMapped(ls, path) == LunExists(ls, path) /\ LunOf(ls, path).mapped

\* a bug: the answer to VolumeDestroy is not looked at
VolumeDestroyDisposition_AnyAnswer(answer) == "nil"

\* a bug: a volume that is gone already counts as a failed delete
VolumeDestroyDisposition_Strict(answer) ==
    IF answer = "passed" THEN "nil" ELSE "error destroying volume"

\* What Destroy does with the answer to VolumeDestroy
VolumeDestroyDisposition(answer) ==
    IF answer \in {"passed", "EVOLUMEDOESNOTEXIST"} THEN "nil"
    ELSE "error destroying volume"

\* "Delete the Flexvol & LUN"
DestroyVolume(st, name) ==
    {LET tried == Log(st, "VolumeDestroy", 0, answer)
     IN  Return(IF answer = "passed"
                THEN [tried EXCEPT
                         !.vols = VolumeDestroyApplyVols(@, name),
                         !.luns = VolumeDestroyApplyLuns(@, name)]
                ELSE tried,
                VolumeDestroyDisposition(answer)) :
        answer \in VolumeDestroyAnswers(st.vols, name)}

\* The Docker branch: tell the host before the LUN goes away
PrepareForRemoval(st, name) ==
    LET target == Log(st, "GetISCSITargetInfo", 0, "passed")
        maps == Log(target, "LunMapListInfo", 0, "passed")
    IN  {Return(Log(st, "GetISCSITargetInfo", 0, "failed"),
                "could not get target info"),
         Return(Log(target, "LunMapListInfo", 0, "failed"),
                "error reading LUN maps")}
        \cup DestroyVolume(IF LunMapped(st.luns, lunPath(name))
                           THEN Log(maps, "PrepareDeviceForRemoval", 0, "done")
                           ELSE maps,
                           name)

\* Every outcome of Destroy(name)
DestroyOutcomes(vs, ls, name, context) ==
    LET st == Begin(vs, ls, 0)
        probed == Log(st, "VolumeExists", 0, "passed")
    IN  {Return(Log(st, "VolumeExists", 0, "failed"),
                "error checking for existing volume")}
        \cup (IF AlreadyDeleted(VolumeExists(vs, name)) THEN {probed}
              ELSE IF context = "docker" THEN PrepareForRemoval(probed, name)
              ELSE DestroyVolume(probed, name))

----------------------------------------------------------------------------
(* Publish *)

\* Every outcome of Publish(volConfig, publishInfo): PublishLUN maps the
\* LUN to the igroup unless it is mapped already
PublishOutcomes(vs, ls, name) ==
    LET st == Begin(vs, ls, 0)
        target == Log(st, "GetISCSITargetInfo", 0, "passed")
    IN  {Return(Log(st, "GetISCSITargetInfo", 0, "failed"),
                "could not get target info"),
         Return(Log(target, "LunMapIfNotMapped", 0, "failed"),
                "error publishing")}
        \cup (IF LunExists(ls, lunPath(name))
              THEN {Log([target EXCEPT !.luns = LunMapApply(@, lunPath(name))],
                        "LunMapIfNotMapped", 0, "passed")}
              ELSE {})

----------------------------------------------------------------------------
(* The driver's methods as actions *)

NoArgs == [name |-> "", size |-> 0, cands |-> <<>>]

\* the callers whose calls run at the same time
Callers == {"a", "b"}

\* GetVolumeExternalWrappers was not called
NotEnumerating ==
    [pc |-> "idle", volumeMap |-> {}, lunsResponse |-> <<>>, i |-> 0,
     error |-> "nil"]

\* the channel as the caller made it
NewChannel == [buf |-> <<>>, closed |-> FALSE, closes |-> 0, received |-> <<>>]

\* a caller that is in no call
Idle ==
    [op |-> "none", pc |-> "idle", name |-> "", size |-> 0, cands |-> <<>>,
     i |-> 0, errs |-> <<>>, lunSize |-> 0, initialVolumeSize |-> 0,
     ret |-> "nil", last |-> [api |-> "", answer |-> ""], probed |-> FALSE,
     created |-> FALSE, faulted |-> FALSE, signalled |-> FALSE,
     volConfigSize |-> 0, taken |-> FALSE]

\* the volume's last successful Resize report, forgotten with the volume
Reported(m, a, r, n) ==
    IF ~VolumeExists(r.vols, n) THEN 0
    ELSE IF m = "Resize" /\ a.name = n /\ r.ret = "nil" THEN r.size
    ELSE reported[n]

NoPre == [vols |-> {}, luns |-> {}, reported |-> [n \in Names |-> 0]]

\* A call of method m with arguments a ends with outcome r
Finish(m, a, r) ==
    /\ vols' = r.vols
    /\ luns' = r.luns
    /\ method' = m
    /\ args' = a
    /\ ret' = r.ret
    /\ calls' = r.calls
    /\ createErrors' = r.errs
    /\ volConfigSize' = r.size
    /\ pre' = [vols |-> vols, luns |-> luns, reported |-> reported]
    /\ reported' = [n \in Names |-> Reported(m, a, r, n)]
    /\ UNCHANGED <<driverContext, procs, enumerate, channel>>

Create(name, size, physicalPools) ==
    /\ method = "none"
    /\ \E r \in CreateOutcomes(vols, luns, name, size, physicalPools) :
           Finish("Create", [name |-> name, size |-> size,
                             cands |-> physicalPools], r)

Resize(name, sizeBytes) ==
    /\ method = "none"
    /\ \E r \in ResizeOutcomes(vols, luns, name, sizeBytes) :
           Finish("Resize", [name |-> name, size |-> sizeBytes, cands |-> <<>>], r)

Destroy(name) ==
    /\ method = "none"
    /\ \E r \in DestroyOutcomes(vols, luns, name, driverContext) :
           Finish("Destroy", [name |-> name, size |-> 0, cands |-> <<>>], r)

Publish(name) ==
    /\ method = "none"
    /\ \E r \in PublishOutcomes(vols, luns, name) :
           Finish("Publish", [name |-> name, size |-> 0, cands |-> <<>>], r)

\* The caller has the result of its call and the driver is free for the
\* next one: calls are synchronous
CallReturns ==
    /\ method # "none"
    /\ method' = "none"
    /\ args' = NoArgs
    /\ ret' = "nil"
    /\ calls' = <<>>
    /\ createErrors' = <<>>
    /\ volConfigSize' = 0
    /\ pre' = NoPre
    /\ UNCHANGED <<vols, luns, driverContext, reported, procs, enumerate,
                   channel>>

Init ==
    /\ vols = {}
    /\ luns = {}
    /\ driverContext \in {"docker", "csi"}
    /\ method = "none"
    /\ args = NoArgs
    /\ ret = "nil"
    /\ calls = <<>>
    /\ createErrors = <<>>
    /\ volConfigSize = 0
    /\ pre = NoPre
    /\ reported = [n \in Names |-> 0]
    /\ procs = [p \in Callers |-> Idle]
    /\ enumerate = NotEnumerating
    /\ channel = NewChannel

Next ==
    \/ \E name \in Names, size \in RequestSizes, pools \in CandidateLists :
           Create(name, size, pools)
    \/ \E name \in Names, sizeBytes \in RequestSizes : Resize(name, sizeBytes)
    \/ \E name \in Names : Destroy(name)
    \/ \E name \in Names : Publish(name)
    \/ CallReturns

Spec == Init /\ [][Next]_vars

----------------------------------------------------------------------------
(* Calls that run at the same time.  The driver takes no lock: two callers *)
(* of Create or Destroy for one name interleave at their remote calls.     *)
(* Each action below is one remote call of one caller together with what   *)
(* the method does with its answer up to the next remote call.             *)

\* the controller as a finished Create can have left it
RaceStarts ==
    {[vols |-> {}, luns |-> {}]}
    \cup {[vols |-> {[name |-> n, aggr |-> 1, size |-> 1]},
           luns |-> {[vol |-> n, lun |-> "lun0", size |-> 1, mapped |-> m]}] :
             n \in Names, m \in BOOLEAN}

RaceSizes == {1, LimitVolumeSize + 1}

RaceCandidateLists == {l \in CandidateLists : Len(l) <= 2}

\* answers to a read or a change of a FlexVol, of a LUN
VolumeAnswers(vs, name) ==
    IF VolumeExists(vs, name) THEN {"passed", "failed"} ELSE {"failed"}

LunAnswers(ls, path) ==
    IF LunExists(ls, path) THEN {"passed", "failed"} ELSE {"failed"}

\* the caller got this answer to this remote call
Step(rec, api, answer) ==
    [rec EXCEPT !.last = [api |-> api, answer |-> answer],
                !.faulted = @ \/ answer \in {"failed", "transport"}]

Goto(rec, pc) == [rec EXCEPT !.pc = pc]

\* the method returns
Done(rec) == [rec EXCEPT !.pc = "done"]

\* createErrors = append(...); continue
NextCandidate(rec) ==
    LET r == [rec EXCEPT !.errs = AppendCreateError(@, PoolAt(rec.cands, rec.i)),
                         !.i = @ + 1]
    IN  IF r.i > Len(r.cands)
        THEN Done(Return(r, "BackendIneligibleError"))
        ELSE Goto(r, "checkAggregateLimits")

At(p, op, pc) == procs[p].op = op /\ procs[p].pc = pc

RaceFrame ==
    UNCHANGED <<driverContext, method, args, ret, calls, createErrors,
                volConfigSize, pre, reported, enumerate, channel>>

\* what one remote call of caller p leaves
Remote(p, rec, vs, ls) ==
    /\ procs' = [procs EXCEPT ![p] = rec]
    /\ vols' = vs
    /\ luns' = ls
    /\ RaceFrame

RaceCreate(p, name, size, physicalPools) ==
    /\ procs[p].pc = "idle"
    /\ Remote(p, [Idle EXCEPT !.op = "Create", !.pc = "VolumeExists",
                              !.name = name, !.size = size,
                              !.cands = physicalPools, !.volConfigSize = size],
              vols, luns)

RaceDestroy(p, name) ==
    /\ procs[p].pc = "idle"
    /\ Remote(p, [Idle EXCEPT !.op = "Destroy", !.pc = "VolumeExists",
                              !.name = name],
              vols, luns)

\* Create: "If the volume already exists, bail out", then the size limit
CreateVolumeExists(p) ==
    /\ At(p, "Create", "VolumeExists")
    /\ \E answer \in {"passed", "failed"} :
         LET rec == Step(procs[p], "VolumeExists", answer)
             volExists == VolumeExists(vols, rec.name)
         IN  Remote(p,
                IF answer = "failed"
                THEN Done(Return(rec, "error checking for existing volume"))
                ELSE IF VolumeExistsResult(volExists) # "proceed"
                THEN Done(Return([rec EXCEPT !.probed = TRUE],
                                 VolumeExistsResult(volExists)))
                ELSE IF SizeLimitsDisposition(
                            CheckVolumeSizeLimits(rec.size)) = "return"
                THEN Done(Return(rec, "size limit exceeded"))
                ELSE Goto([rec EXCEPT !.i = 1], "checkAggregateLimits"),
                vols, luns)

CreateCheckAggregateLimits(p) ==
    /\ At(p, "Create", "checkAggregateLimits")
    /\ \E answer \in {"passed", "failed"} :
         LET rec == Step(procs[p], "checkAggregateLimits", answer)
         IN  Remote(p, IF AggregateLimitsDisposition(answer) = "continue"
                       THEN NextCandidate(rec)
                       ELSE Goto(rec, "VolumeCreate"),
                    vols, luns)

CreateVolumeCreate(p) ==
    /\ At(p, "Create", "VolumeCreate")
    /\ \E answer \in VolumeCreateAnswers(vols, procs[p].name) :
         LET rec == [Step(procs[p], "VolumeCreate", answer)
                        EXCEPT !.taken = @ \/ VolumeExists(vols, procs[p].name)]
             aggregate == PoolAt(rec.cands, rec.i)
         IN  CASE VolumeCreateDisposition(answer) = "return nil" ->
                    Remote(p, Done(rec), vols, luns)
               [] VolumeCreateDisposition(answer) = "continue" ->
                    Remote(p, NextCandidate(rec), vols, luns)
               [] OTHER ->
                    Remote(p, Goto([rec EXCEPT !.created = TRUE], "LunCreate"),
                           VolumeCreateApply(vols, rec.name, aggregate, rec.size),
                           luns)

CreateLunCreate(p) ==
    /\ At(p, "Create", "LunCreate")
    /\ \E answer \in LunCreateAnswers(vols, luns, lunPath(procs[p].name)),
          round \in Rounds :
         LET rec == Step(procs[p], "LunCreate", answer)
         IN  IF LunCreateDisposition(answer) = "continue"
             THEN Remote(p, NextCandidate(rec), vols, luns)
             ELSE Remote(p, Goto([rec EXCEPT !.lunSize = rec.size + round],
                                 "LunSetAttribute"),
                         vols,
                         LunCreateApply(luns, lunPath(rec.name), rec.size, round))

\* the file system type: its failure ends Create, the LUN is deleted on the
\* way out
CreateLunSetAttribute(p) ==
    /\ At(p, "Create", "LunSetAttribute")
    /\ \E answer \in LunAnswers(luns, lunPath(procs[p].name)) :
         LET rec == Step(procs[p], "LunSetAttribute", answer)
         IN  Remote(p, IF LunSetAttributeDisposition(answer) = "proceed"
                       THEN Goto(rec, "LunSetAttributeContext")
                       ELSE Goto(Return(rec, "error saving file system type"),
                                 "LunDestroy"),
                    vols, luns)

\* defer d.API.LunDestroy(lunPath)
CreateLunDestroy(p) ==
    /\ At(p, "Create", "LunDestroy")
    /\ \E answer \in LunAnswers(luns, lunPath(procs[p].name)) :
         LET rec == Step(procs[p], "LunDestroy", answer)
         IN  Remote(p, Done(rec), vols,
                    IF answer = "passed"
                    THEN LunDestroyApply(luns, lunPath(rec.name))
                    ELSE luns)

\* the driver context: its failure is a warning
CreateLunSetAttributeContext(p) ==
    /\ At(p, "Create", "LunSetAttributeContext")
    /\ \E answer \in LunAnswers(luns, lunPath(procs[p].name)) :
         Remote(p, Goto(Step(procs[p], "LunSetAttribute", answer), "VolumeSize"),
                vols, luns)

CreateVolumeSize(p) ==
    /\ At(p, "Create", "VolumeSize")
    /\ \E answer \in VolumeAnswers(vols, procs[p].name) :
         LET rec == Step(procs[p], "VolumeSize", answer)
             initialVolumeSize == VolumeSize(vols, rec.name)
         IN  Remote(p,
                IF answer = "failed" THEN Done(Warning(rec))
                ELSE IF ReconcileNeeded(rec.lunSize, initialVolumeSize)
                THEN Goto([rec EXCEPT !.initialVolumeSize = initialVolumeSize],
                          "VolumeSetSize")
                ELSE Done(rec),
                vols, luns)

CreateVolumeSetSize(p) ==
    /\ At(p, "Create", "VolumeSetSize")
    /\ \E answer \in VolumeAnswers(vols, procs[p].name), round \in Rounds :
         LET rec == Step(procs[p], "VolumeSetSize", answer)
         IN  IF answer = "failed"
             THEN Remote(p, Done(Warning(
                                [rec EXCEPT !.volConfigSize =
                                    SizeOnResizeFailure(rec.initialVolumeSize,
                                                        rec.lunSize)])),
                         vols, luns)
             ELSE Remote(p, Goto(rec, "VolumeSizeAgain"),
                         VolumeSetSizeApply(vols, rec.name, rec.lunSize, round),
                         luns)

CreateVolumeSizeAgain(p) ==
    /\ At(p, "Create", "VolumeSizeAgain")
    /\ \E answer \in VolumeAnswers(vols, procs[p].name) :
         LET rec == Step(procs[p], "VolumeSize", answer)
         IN  Remote(p,
                IF answer = "failed" THEN Done(Warning(rec))
                ELSE Done([rec EXCEPT !.volConfigSize =
                              AdjustedSize(VolumeSize(vols, rec.name),
                                           rec.lunSize)]),
                vols, luns)

\* Destroy: "Validate Flexvol exists before trying to destroy"
DestroyVolumeExists(p) ==
    /\ At(p, "Destroy", "VolumeExists")
    /\ \E answer \in {"passed", "failed"} :
         LET rec == Step(procs[p], "VolumeExists", answer)
             volExists == VolumeExists(vols, rec.name)
         IN  Remote(p,
                IF answer = "failed"
                THEN Done(Return(rec, "error checking for existing volume"))
                ELSE IF AlreadyDeleted(volExists) THEN Done(rec)
                ELSE Goto([rec EXCEPT !.probed = TRUE],
                          IF driverContext = "docker"
                          THEN "GetISCSITargetInfo" ELSE "VolumeDestroy"),
                vols, luns)

DestroyGetISCSITargetInfo(p) ==
    /\ At(p, "Destroy", "GetISCSITargetInfo")
    /\ \E answer \in {"passed", "failed"} :
         LET rec == Step(procs[p], "GetISCSITargetInfo", answer)
         IN  Remote(p, IF answer = "failed"
                       THEN Done(Return(rec, "could not get target info"))
                       ELSE Goto(rec, "LunMapListInfo"),
                    vols, luns)

\* only a call that did not reach the controller is an error here: for a LUN
\* that is gone the answer holds no initiator group and lunID stays -1
DestroyLunMapListInfo(p) ==
    /\ At(p, "Destroy", "LunMapListInfo")
    /\ \E answer \in {"passed", "transport"} :
         LET rec == Step(procs[p], "LunMapListInfo", answer)
         IN  Remote(p, IF answer = "transport"
                       THEN Done(Return(rec, "error reading LUN maps"))
                       ELSE Goto([rec EXCEPT !.signalled =
                                     LunMapped(luns, lunPath(rec.name))],
                                 "VolumeDestroy"),
                    vols, luns)

DestroyVolumeDestroy(p) ==
    /\ At(p, "Destroy", "VolumeDestroy")
    /\ \E answer \in VolumeDestroyAnswers(vols, procs[p].name) :
         LET rec == Step(procs[p], "VolumeDestroy", answer)
         IN  Remote(p, Done(Return(rec, VolumeDestroyDisposition(answer))),
                    IF answer = "passed"
                    THEN VolumeDestroyApplyVols(vols, rec.name) ELSE vols,
                    IF answer = "passed"
                    THEN VolumeDestroyApplyLuns(luns, rec.name) ELSE luns)

RaceInit ==
    /\ \E start \in RaceStarts : vols = start.vols /\ luns = start.luns
    /\ driverContext \in {"docker", "csi"}
    /\ method = "none"
    /\ args = NoArgs
    /\ ret = "nil"
    /\ calls = <<>>
    /\ createErrors = <<>>
    /\ volConfigSize = 0
    /\ pre = NoPre
    /\ reported = [n \in Names |-> 0]
    /\ procs = [p \in Callers |-> Idle]
    /\ enumerate = NotEnumerating
    /\ channel = NewChannel

RaceNext ==
    \/ \E p \in Callers, name \in Names, size \in RaceSizes,
          pools \in RaceCandidateLists : RaceCreate(p, name, size, pools)
    \/ \E p \in Callers, name \in Names : RaceDestroy(p, name)
    \/ \E p \in Callers : CreateVolumeExists(p)
    \/ \E p \in Callers : CreateCheckAggregateLimits(p)
    \/ \E p \in Callers : CreateVolumeCreate(p)
    \/ \E p \in Callers : CreateLunCreate(p)
    \/ \E p \in Callers : CreateLunSetAttribute(p)
    \/ \E p \in Callers : CreateLunDestroy(p)
    \/ \E p \in Callers : CreateLunSetAttributeContext(p)
    \/ \E p \in Callers : CreateVolumeSize(p)
    \/ \E p \in Callers : CreateVolumeSetSize(p)
    \/ \E p \in Callers : CreateVolumeSizeAgain(p)
    \/ \E p \in Callers : DestroyVolumeExists(p)
    \/ \E p \in Callers : DestroyGetISCSITargetInfo(p)
    \/ \E p \in Callers : DestroyLunMapListInfo(p)
    \/ \E p \in Callers : DestroyVolumeDestroy(p)

SpecRace == RaceInit /\ [][RaceNext]_vars

----------------------------------------------------------------------------
(* Import: the adoption of a FlexVol and LUN the driver did not create.    *)
(* Here the controller's records carry what Import reads of them: a        *)
(* FlexVol its type, a LUN whether it is online and mapped, each attribute *)
(* possibly missing from the controller's answer (a nil pointer).          *)

\* names a volume to import can have: a foreign one, or one of the driver's
OriginalNames == {"ext1"} \cup Names

\* volumeIdAttrs.Type(); "unset": TypePtr is nil; "noattrs":
\* VolumeIdAttributesPtr is nil
VolumeTypes == {"rw", "dp", "unset", "noattrs"}

\* a boolean attribute of the LUN, "unset" when its pointer is nil
Flags == {"true", "false", "unset"}

ForeignVolumes ==
    {[name |-> "ext1", aggr |-> 1, size |-> MaxSize, type |-> type] :
        type \in VolumeTypes}

\* sizeSet: SizePtr is not nil
ForeignLuns ==
    {[vol |-> "ext1", lun |-> lun, size |-> size, sizeSet |-> sizeSet,
      online |-> online, mapped |-> mapped] :
        lun \in {"lun0", "lun1"}, size \in {1, MaxSize}, sizeSet \in BOOLEAN,
        online \in Flags, mapped \in Flags}

\* lun-get of "/vol/<name>/*": answered with the volume's one LUN
LunGetAnswers(ls, name) ==
    IF Cardinality({l \in ls : l.vol = name}) = 1
    THEN {"passed", "failed"} ELSE {"failed"}

LunIn(ls, name) == CHOOSE l \in ls : l.vol = name

LunRenameApply(ls, name, lun) ==
    {IF l.vol = name THEN [l EXCEPT !.lun = lun] ELSE l : l \in ls}

\* answers of volume-rename: the new name is not taken by another volume
VolumeRenameAnswers(vs, name, newName) ==
    IF VolumeExists(vs, name) /\ (name = newName \/ ~VolumeExists(vs, newName))
    THEN {"passed", "failed"} ELSE {"failed"}

VolumeRenameApplyVols(vs, name, newName) ==
    {IF v.name = name THEN [v EXCEPT !.name = newName] ELSE v : v \in vs}

\* the LUNs of a renamed FlexVol are at paths under the new name
VolumeRenameApplyLuns(ls, name, newName) ==
    {IF l.vol = name THEN [l EXCEPT !.vol = newName] ELSE l : l \in ls}

\* "Validate the volume is what it should be": the type is looked at only
\* when the answer carries it
TypeNotRW(flexvol) ==
    flexvol.type \notin {"noattrs", "unset"} /\ flexvol.type # "rw"

\* "The LUN should be online": looked at only when OnlinePtr is not nil
LunOffline(lunInfo) == lunInfo.online # "unset" /\ lunInfo.online # "true"

\* unmanaged import: looked at only when MappedPtr is not nil
LunNotMapped(lunInfo) == lunInfo.mapped # "unset" /\ lunInfo.mapped # "true"

\* a bug: the LUN is left at the path it was found at
LunRenameNeeded_Never(path, targetPath) == FALSE

\* the LUN is renamed unless it is at /vol/<originalName>/lun0 already
LunRenameNeeded(path, targetPath) == path # targetPath

\* "Rename the volume or LUN if Trident will manage its lifecycle"
ImportManaged(st, lunInfo, originalName, internalName) ==
    LET targetLun == lunPath(originalName).lun
        lunRenamed ==
            Log([st EXCEPT !.luns = LunRenameApply(@, originalName, targetLun)],
                "LunRename", 0, "passed")
        VolumeRenamed(s) ==
            Log([s EXCEPT
                    !.vols = VolumeRenameApplyVols(@, originalName, internalName),
                    !.luns = VolumeRenameApplyLuns(@, originalName, internalName)],
                "VolumeRename", 0, "passed")
        RenameVolume(s) ==
            {IF answer = "passed" THEN VolumeRenamed(s)
             ELSE Return(Log(s, "VolumeRename", 0, answer),
                         "volume rename failed") :
                answer \in VolumeRenameAnswers(s.vols, originalName,
                                               internalName)}
    IN  IF LunRenameNeeded(lunInfo.lun, targetLun)
        THEN {Return(Log(st, "LunRename", 0, "failed"), "LUN rename failed")}
             \cup RenameVolume(lunRenamed)
        ELSE RenameVolume(st)

\* "Volume import is not managed by Trident"
ImportNotManaged(st, flexvol, lunInfo, originalName) ==
    IF flexvol.type = "noattrs"
    THEN Return(st, "unable to read volume id attributes")
    ELSE IF lunInfo.lun # lunPath(originalName).lun
    THEN Return(st, "LUN is named incorrectly")
    ELSE IF LunNotMapped(lunInfo)
    THEN Return(st, "LUN is not mapped")
    ELSE st

\* Every outcome of Import(volConfig, originalName)
ImportOutcomes(vs, ls, originalName, internalName, notManaged) ==
    LET st == Begin(vs, ls, 0)
        got == Log(st, "VolumeGet", 0, "passed")
        flexvol == VolumeOf(vs, originalName)
        read == Log(got, "LunGet", 0, "passed")
        lunInfo == LunIn(ls, originalName)
        sized == [read EXCEPT !.size = lunInfo.size]
    IN  {Return(Log(st, "VolumeGet", 0, "failed"), "error reading volume")}
        \cup
        (IF ~VolumeExists(vs, originalName)
         THEN {Return(got, "volume not found")}
         ELSE
           {Return(Log(got, "LunGet", 0, "failed"), "error reading LUN")}
           \cup
           (IF "passed" \notin LunGetAnswers(ls, originalName) THEN {}
            ELSE IF TypeNotRW(flexvol)
            THEN {Return(read, "volume type is not rw")}
            ELSE IF LunOffline(lunInfo)
            THEN {Return(read, "LUN is not online")}
            ELSE IF ~lunInfo.sizeSet
            THEN {Return(read, "volume size not available")}
            ELSE IF ~notManaged
            THEN ImportManaged(sized, lunInfo, originalName, internalName)
            ELSE {ImportNotManaged(sized, flexvol, lunInfo, originalName)}))

Import(originalName, internalName, notManaged) ==
    /\ method = "none"
    /\ \E r \in ImportOutcomes(vols, luns, originalName, internalName,
                               notManaged) :
           Finish("Import", [name |-> internalName, size |-> 0, cands |-> <<>>,
                             originalName |-> originalName,
                             notManaged |-> notManaged], r)

\* the controller holds a foreign FlexVol, with one LUN or none
ImportInit ==
    /\ vols \in {{v} : v \in ForeignVolumes}
    /\ luns \in {{}} \cup {{l} : l \in ForeignLuns}
    /\ driverContext \in {"docker", "csi"}
    /\ method = "none"
    /\ args = NoArgs
    /\ ret = "nil"
    /\ calls = <<>>
    /\ createErrors = <<>>
    /\ volConfigSize = 0
    /\ pre = NoPre
    /\ reported = [n \in Names |-> 0]
    /\ procs = [p \in Callers |-> Idle]
    /\ enumerate = NotEnumerating
    /\ channel = NewChannel

ImportNext ==
    \/ \E originalName \in OriginalNames, internalName \in Names,
          notManaged \in BOOLEAN :
           Import(originalName, internalName, notManaged)
    \/ CallReturns

SpecImport == ImportInit /\ [][ImportNext]_vars

----------------------------------------------------------------------------
(* GetVolumeExternalWrappers: the volumes of the backend are written to a  *)
(* channel that the caller reads.  It runs beside its reader and beside    *)
(* other clients of the controller, which make and delete volumes between  *)
(* its two bulk calls.  Each action is one remote call or one send.        *)

\* the names with the storage prefix
PrefixedNames == {"vol1", "vol2"}

\* &storage.VolumeExternalWrapper{Volume: ..., Error: ...}; Volume is nil
\* when the sequence is empty
VolumeExternalWrapper(volume, err) == [Volume |-> volume, Error |-> err]

\* getVolumeExternal(&lun, &volume)
getVolumeExternal(lunAttrs, volumeAttrs) ==
    [InternalName |-> volumeAttrs.name, Size |-> lunAttrs.size,
     Pool |-> volumeAttrs.aggr]

\* the orders in which lun-get-iter can list a set of LUNs
Listings(ls) ==
    {q \in UNION {[1..n -> ls] : n \in {Cardinality(ls)}} :
        \A i, j \in DOMAIN q : i # j => q[i] # q[j]}

\* answers of LunGetAll("/vol/<prefix>*/lun0")
LunGetAllResponses(ls) == Listings({l \in ls : l.lun = "lun0"})

\* volumeMap[lun.Volume()]
InVolumeMap(volumeMap, lun) == \E v \in volumeMap : v.name = lun.vol

VolumeMapAt(volumeMap, lun) == CHOOSE v \in volumeMap : v.name = lun.vol

\* a bug: the error of a bulk call is not looked at
BulkCallDisposition_Ignored(answer) == "proceed"

\* What GetVolumeExternalWrappers does with the answer to a bulk call
BulkCallDisposition(answer) ==
    IF answer = "passed" THEN "proceed" ELSE "send error and return"

\* a bug: the loop ends at the first LUN whose FlexVol is not in volumeMap
FlexvolLookupDisposition_Return(ok) == IF ok THEN "write" ELSE "return"

\* volume, ok := volumeMap[lun.Volume()]: what the loop does with the LUN
FlexvolLookupDisposition(ok) == IF ok THEN "write" ELSE "continue"

\* the loop over the LUNs has one more LUN to look at
InRange ==
    /\ enumerate.pc = "range"
    /\ enumerate.i < Len(enumerate.lunsResponse)

\* channel <- element goes through when the channel has room
CanSend == Len(channel.buf) < MaxChan

Send(element) == [channel EXCEPT !.buf = Append(@, element)]

EnumerateFrame ==
    UNCHANGED <<driverContext, method, args, ret, calls, createErrors,
                volConfigSize, pre, reported, procs>>

\* GetVolumeExternalWrappers(channel) is called
Enumerate ==
    /\ enumerate.pc = "idle"
    /\ enumerate' = [enumerate EXCEPT !.pc = "VolumeGetAll"]
    /\ UNCHANGED <<vols, luns, channel>>
    /\ EnumerateFrame

\* "Get all volumes matching the storage prefix"
EnumerateVolumeGetAll ==
    /\ enumerate.pc = "VolumeGetAll"
    /\ \E answer \in {"passed", "failed"} :
         enumerate' =
             IF BulkCallDisposition(answer) = "proceed"
             THEN [enumerate EXCEPT
                      !.pc = "LunGetAll",
                      !.volumeMap = IF answer = "passed" THEN vols ELSE {},
                      !.error = IF answer = "passed" THEN @
                                ELSE "VolumeGetAll failed"]
             ELSE [enumerate EXCEPT !.pc = "send error",
                                    !.error = "VolumeGetAll failed"]
    /\ UNCHANGED <<vols, luns, channel>>
    /\ EnumerateFrame

\* "Get all LUNs named 'lun0' in volumes matching the storage prefix"
EnumerateLunGetAll ==
    /\ enumerate.pc = "LunGetAll"
    /\ \/ \E lunsResponse \in LunGetAllResponses(luns) :
            enumerate' = [enumerate EXCEPT !.pc = "range",
                                           !.lunsResponse = lunsResponse]
       \/ enumerate' =
             IF BulkCallDisposition("failed") = "proceed"
             THEN [enumerate EXCEPT !.pc = "range",
                                    !.error = "LunGetAll failed"]
             ELSE [enumerate EXCEPT !.pc = "send error",
                                    !.error = "LunGetAll failed"]
    /\ UNCHANGED <<vols, luns, channel>>
    /\ EnumerateFrame

\* channel <- &storage.VolumeExternalWrapper{Volume: nil, Error: err}; return
EnumerateSendError ==
    /\ enumerate.pc = "send error"
    /\ CanSend
    /\ channel' = Send(VolumeExternalWrapper(<<>>, enumerate.error))
    /\ enumerate' = [enumerate EXCEPT !.pc = "close"]
    /\ UNCHANGED <<vols, luns>>
    /\ EnumerateFrame

\* the next LUN of the list has its FlexVol in volumeMap: it is written
EnumerateEmit ==
    /\ InRange
    /\ LET lun == enumerate.lunsResponse[enumerate.i + 1]
       IN  /\ FlexvolLookupDisposition(
                  InVolumeMap(enumerate.volumeMap, lun)) = "write"
           /\ CanSend
           /\ channel' =
                 Send(VolumeExternalWrapper(
                          <<getVolumeExternal(
                                lun, VolumeMapAt(enumerate.volumeMap, lun))>>,
                          "nil"))
    /\ enumerate' = [enumerate EXCEPT !.i = @ + 1]
    /\ UNCHANGED <<vols, luns>>
    /\ EnumerateFrame

\* "Flexvol not found for LUN.": continue
EnumerateSkip ==
    /\ InRange
    /\ LET lun == enumerate.lunsResponse[enumerate.i + 1]
           disposition ==
               FlexvolLookupDisposition(InVolumeMap(enumerate.volumeMap, lun))
       IN  /\ disposition # "write"
           /\ enumerate' = IF disposition = "continue"
                           THEN [enumerate EXCEPT !.i = @ + 1]
                           ELSE [enumerate EXCEPT !.pc = "close"]
    /\ UNCHANGED <<vols, luns, channel>>
    /\ EnumerateFrame

\* the loop over the LUNs is through
EnumerateReturns ==
    /\ enumerate.pc = "range"
    /\ enumerate.i = Len(enumerate.lunsResponse)
    /\ enumerate' = [enumerate EXCEPT !.pc = "close"]
    /\ UNCHANGED <<vols, luns, channel>>
    /\ EnumerateFrame

\* defer close(channel)
EnumerateClose ==
    /\ enumerate.pc = "close"
    /\ channel' = [channel EXCEPT !.closed = TRUE, !.closes = @ + 1]
    /\ enumerate' = [enumerate EXCEPT !.pc = "done"]
    /\ UNCHANGED <<vols, luns>>
    /\ EnumerateFrame

\* the caller receives from the channel
Receive ==
    /\ channel.buf # <<>>
    /\ channel' = [channel EXCEPT !.buf = Tail(@),
                                  !.received = Append(@, Head(channel.buf))]
    /\ UNCHANGED <<vols, luns, enumerate>>
    /\ EnumerateFrame

\* another client's Create ends: a FlexVol with its LUN appears, the LUN
\* possibly rounded up
OtherCreates(name, round) ==
    /\ ~VolumeExists(vols, name)
    /\ vols' = VolumeCreateApply(vols, name, 1, 1)
    /\ luns' = LunCreateApply(luns, lunPath(name), 1, round)
    /\ UNCHANGED <<enumerate, channel>>
    /\ EnumerateFrame

\* another client's Destroy ends
OtherDestroys(name) ==
    /\ VolumeExists(vols, name)
    /\ vols' = VolumeDestroyApplyVols(vols, name)
    /\ luns' = VolumeDestroyApplyLuns(luns, name)
    /\ UNCHANGED <<enumerate, channel>>
    /\ EnumerateFrame

EnumerateNext ==
    \/ Enumerate
    \/ EnumerateVolumeGetAll
    \/ EnumerateLunGetAll
    \/ EnumerateSendError
    \/ EnumerateEmit
    \/ EnumerateSkip
    \/ EnumerateReturns
    \/ EnumerateClose
    \/ Receive
    \/ \E name \in PrefixedNames, round \in Rounds : OtherCreates(name, round)
    \/ \E name \in PrefixedNames : OtherDestroys(name)

SpecEnumerate == Init /\ [][EnumerateNext]_vars

\* a step of the goroutine that runs GetVolumeExternalWrappers
EnumerateStep ==
    \/ EnumerateVolumeGetAll
    \/ EnumerateLunGetAll
    \/ EnumerateSendError
    \/ EnumerateEmit
    \/ EnumerateSkip
    \/ EnumerateReturns
    \/ EnumerateClose

\* the goroutine is scheduled and its remote calls return; the caller
\* keeps receiving from the channel
SpecEnumerateFair ==
    /\ Init
    /\ [][EnumerateNext]_vars
    /\ WF_vars(EnumerateStep)
    /\ WF_vars(Receive)

----------------------------------------------------------------------------
(* What the properties below speak about *)

Mutating(call) == call.api \in MutatingApis

NoMutatingCall == \A i \in DOMAIN calls : ~Mutating(calls[i])

ControllerUnchanged == vols = pre.vols /\ luns = pre.luns

\* the existence probe that opens Create, Resize and Destroy was answered
ProbeAnswered ==
    /\ calls # <<>>
    /\ calls[1] = [api |-> "VolumeExists", cand |-> 0, answer |-> "passed"]

ExistedBefore == \E v \in pre.vols : v.name = args.name

ExistsNow == \E v \in vols : v.name = args.name

\* size of the FlexVol when the call started, and now
SizeBefore == (CHOOSE v \in pre.vols : v.name = args.name).size

SizeNow == (CHOOSE v \in vols : v.name = args.name).size

DeviceNow == \E l \in luns : l.vol = args.name /\ l.lun = "lun0"

DeviceSizeNow ==
    (CHOOSE l \in luns : l.vol = args.name /\ l.lun = "lun0").size

\* some call of this api, for this candidate, got this answer
Answered(api, cand, answer) ==
    \E i \in DOMAIN calls :
        calls[i] = [api |-> api, cand |-> cand, answer |-> answer]

----------------------------------------------------------------------------
(* C1 *)

----------------------------------------------------------------------------
(* C2 *)

\* C2: whatever calls were made, the controller holds at most one Container
\* of a name, at most one Device in it, and that Device sits at
\* /vol/<name>/lun0.
C2_OneContainerOneDevice ==
    \A n \in Names :
        /\ Cardinality({v \in vols : v.name = n}) <= 1
        /\ Cardinality({l \in luns : l.vol = n}) <= 1
        /\ \A l \in luns : l.vol = n => l.lun = "lun0"

\* a Create that found the name free, lost its first candidate after the
\* FlexVol was made there, and went on to the next
C2_Witness ==
    /\ method = "Create"
    /\ ~ExistedBefore
    /\ Answered("LunCreate", 1, "failed")
    /\ Answered("VolumeCreate", 2, "failed")
    /\ Cardinality({v \in vols : v.name = args.name}) = 1

----------------------------------------------------------------------------
(* C3 *)

\* C3: Destroy for a name whose Container the probe finds absent returns
\* success having issued neither a delete call nor the prepare-for-removal
\* signal: the probe is all it does.
C3_DestroyAbsentSucceeds ==
    (method = "Destroy" /\ ProbeAnswered /\ ~ExistedBefore)
        => /\ ret = "nil"
           /\ Len(calls) = 1
           /\ \A i \in DOMAIN calls :
                  calls[i].api \notin {"VolumeDestroy", "PrepareDeviceForRemoval"}
           /\ ControllerUnchanged

C3_Witness ==
    /\ method = "Destroy"
    /\ driverContext = "docker"
    /\ ProbeAnswered
    /\ ~ExistedBefore
    /\ ret = "nil"

----------------------------------------------------------------------------
(* C4 *)

\* the candidate was given up at its limit check, its FlexVol or its LUN
CandidateFailed(aggregate) ==
    \/ Answered("checkAggregateLimits", aggregate, "failed")
    \/ Answered("VolumeCreate", aggregate, "failed")
    \/ Answered("LunCreate", aggregate, "failed")

AllCandidatesFailed ==
    /\ method = "Create"
    /\ \A i \in DOMAIN args.cands : CandidateFailed(args.cands[i])

\* C4 as claimed: when all N candidates fail creation, Create returns the
\* aggregated failure with one entry per candidate, in candidate order, and
\* no Container of the name exists afterwards.
C4_ExhaustionLeavesNothing ==
    AllCandidatesFailed
        => /\ ret = "BackendIneligibleError"
           /\ createErrors = args.cands
           /\ ~ExistsNow

\* C4 as amended: when all N candidates fail creation, Create returns the
\* aggregated failure with one entry per candidate, in candidate order; a
\* Container of the name exists afterwards exactly if a candidate failed at
\* the creation of its Device, and no Device exists.
C4_ExhaustionEntries ==
    AllCandidatesFailed
        => /\ ret = "BackendIneligibleError"
           /\ createErrors = args.cands
           /\ ExistsNow <=>
                  \E i \in DOMAIN args.cands :
                      Answered("LunCreate", args.cands[i], "failed")
           /\ ~DeviceNow

C4_Witness ==
    /\ AllCandidatesFailed
    /\ Len(args.cands) = MaxCands
    /\ Answered("checkAggregateLimits", 1, "failed")
    /\ Answered("VolumeCreate", 2, "failed")
    /\ Len(createErrors) = MaxCands
    /\ ~ExistsNow

----------------------------------------------------------------------------
(* C5 *)

\* the call created or resized the Device
DeviceOp(i) ==
    /\ i \in DOMAIN calls
    /\ calls[i].api \in {"LunCreate", "LunResize"}
    /\ calls[i].answer = "passed"

\* after the Device was made or resized, the first read of the FlexVol size
\* was answered and no resize of the FlexVol was refused
Aligned ==
    \E i \in DOMAIN calls :
        /\ DeviceOp(i)
        /\ i < Len(calls)
        /\ \E j \in (i + 1)..Len(calls) :
               /\ calls[j].api = "VolumeSize"
               /\ calls[j].answer = "passed"
               /\ \A k \in (i + 1)..(j - 1) : calls[k].api # "VolumeSize"
        /\ \A j \in (i + 1)..Len(calls) :
               calls[j].api = "VolumeSetSize" => calls[j].answer = "passed"

\* C5 as claimed: after every Create or Resize that returns success, the
\* Container is at least as large as its Device.
C5_ContainerCoversDevice ==
    (method \in {"Create", "Resize"} /\ ret = "nil" /\ ExistsNow /\ DeviceNow)
        => SizeNow >= DeviceSizeNow

\* C5 as amended: after a Create or Resize that made or resized the Device
\* and returns success, the Container is at least as large as the Device,
\* provided the first size read of the alignment step was answered and its
\* Container resize, if one was issued, was not refused.
C5_AlignedContainerCoversDevice ==
    (method \in {"Create", "Resize"} /\ ret = "nil" /\ Aligned)
        => (ExistsNow /\ DeviceNow /\ SizeNow >= DeviceSizeNow)

\* the LUN came out larger than asked and the FlexVol was grown to it
C5_Witness ==
    /\ method = "Create"
    /\ ret = "nil"
    /\ Aligned
    /\ DeviceSizeNow > args.size
    /\ \E a \in 1..MaxCands : Answered("VolumeSetSize", a, "passed")

----------------------------------------------------------------------------
(* C6 *)

\* C6: a successful Resize reports a size no smaller than the one the last
\* successful Resize of the volume reported.
C6_ReportsNeverDecrease ==
    (method = "Resize" /\ ret = "nil" /\ pre.reported[args.name] # 0)
        => volConfigSize >= pre.reported[args.name]

----------------------------------------------------------------------------
(* C7 *)

WithinDelta(x, y) == x - y <= SANResizeDelta /\ y - x <= SANResizeDelta

\* Resize found the Container and read its size
SizeRead ==
    /\ method = "Resize"
    /\ ProbeAnswered
    /\ ExistedBefore
    /\ Len(calls) >= 2
    /\ calls[2] = [api |-> "VolumeSize", cand |-> 0, answer |-> "passed"]

\* C7: Resize to a size within the tolerance of the Container's current size
\* returns success, reports the current size and not the requested one, and
\* issues no mutating controller call.
C7_ToleranceNoOp ==
    (SizeRead /\ WithinDelta(args.size, SizeBefore))
        => /\ ret = "nil"
           /\ volConfigSize = SizeBefore
           /\ NoMutatingCall
           /\ ControllerUnchanged

C7_Witness ==
    /\ SizeRead
    /\ args.size = SizeBefore + SANResizeDelta
    /\ ret = "nil"
    /\ volConfigSize = SizeBefore

----------------------------------------------------------------------------
(* C8 *)

\* C8 as claimed: Resize to a size smaller than the Container's current size
\* fails as a shrink and changes no size.
C8_ShrinkRejected ==
    (SizeRead /\ args.size < SizeBefore)
        => /\ ret = "requested size is less than existing volume size"
           /\ NoMutatingCall
           /\ ControllerUnchanged

\* C8 as amended: Resize to a size smaller than the Container's current size
\* changes no size; it fails as a shrink when the size is smaller by more
\* than the tolerance, and within the tolerance it is the no-op success.
C8_ShrinkBeyondToleranceRejected ==
    (SizeRead /\ args.size < SizeBefore)
        => /\ NoMutatingCall
           /\ ControllerUnchanged
           /\ ret = IF SizeBefore - args.size > SANResizeDelta
                    THEN "requested size is less than existing volume size"
                    ELSE "nil"

C8_Witness ==
    /\ SizeRead
    /\ SizeBefore - args.size > SANResizeDelta
    /\ ret = "requested size is less than existing volume size"

----------------------------------------------------------------------------
(* C9 *)

\* C9: when the controller answers a Container creation with "Job exists",
\* Create returns success at once: that call is its last, no error is
\* recorded for the candidate and no later candidate is tried.
C9_JobExistsIsSuccess ==
    \A i \in DOMAIN calls :
        (method = "Create" /\ calls[i].api = "VolumeCreate"
                          /\ calls[i].answer = "JobExists")
            => /\ ret = "nil"
               /\ i = Len(calls)
               /\ \A k \in DOMAIN createErrors :
                      createErrors[k] # calls[i].cand
               /\ \A j \in DOMAIN calls : calls[j].cand <= calls[i].cand

\* the second of three candidates is answered "Job exists"
C9_Witness ==
    /\ method = "Create"
    /\ Len(args.cands) >= 3
    /\ Answered("VolumeCreate", 2, "JobExists")
    /\ createErrors = <<1>>
    /\ ret = "nil"

----------------------------------------------------------------------------
(* C10 *)

\* Container, Device and both attributes were made for this candidate
CandidateSucceeded(aggregate) ==
    /\ Answered("VolumeCreate", aggregate, "passed")
    /\ Answered("LunCreate", aggregate, "passed")
    /\ ~Answered("LunSetAttribute", aggregate, "failed")

\* C10: Create goes through the candidates in the order supplied and stops
\* at the first on which Container, Device and tagging succeed: it returns
\* success, every earlier candidate was tried and failed before, and no
\* call is made for a later one.
C10_FirstSuccessWins ==
    method = "Create" =>
        /\ \A i, j \in DOMAIN calls : i < j => calls[i].cand <= calls[j].cand
        /\ \A k \in DOMAIN args.cands :
               CandidateSucceeded(args.cands[k])
                   => /\ ret = "nil"
                      /\ createErrors = SubSeq(args.cands, 1, k - 1)
                      /\ \A j \in DOMAIN calls :
                             calls[j].cand \in {0} \cup {args.cands[m] : m \in 1..k}

\* the first candidate failed, the second succeeded, the third was left
\* alone
C10_Witness ==
    /\ method = "Create"
    /\ Len(args.cands) >= 3
    /\ CandidateFailed(1)
    /\ CandidateSucceeded(2)
    /\ ret = "nil"

----------------------------------------------------------------------------
(* C11 *)

\* after the Device was made or resized, a step of the alignment failed:
\* one of the two reads of the FlexVol size, or the FlexVol resize
AlignmentStepFailed ==
    \E i, j \in DOMAIN calls :
        /\ DeviceOp(i)
        /\ i < j
        /\ calls[j].api \in {"VolumeSize", "VolumeSetSize"}
        /\ calls[j].answer = "failed"

\* C11: once the Device is created or resized, a failure of a step of the
\* alignment (size read, Container resize, second size read) never makes
\* Create or Resize return an error.
C11_AlignmentFailureNotFatal ==
    (method \in {"Create", "Resize"} /\ AlignmentStepFailed) => ret = "nil"

\* each of the three steps fails in some call: here the second read, in a
\* Resize whose FlexVol resize to the LUN's size went through
C11_Witness ==
    /\ method = "Resize"
    /\ AlignmentStepFailed
    /\ Len(calls) >= 3
    /\ calls[Len(calls) - 2].api = "VolumeSize"
    /\ calls[Len(calls) - 1] = [api |-> "VolumeSetSize", cand |-> 0,
                                answer |-> "passed"]
    /\ calls[Len(calls)] = [api |-> "VolumeSize", cand |-> 0,
                            answer |-> "failed"]
    /\ ret = "nil"

----------------------------------------------------------------------------
(* C12 *)

\* Create made a Device whose actual size is not the size of its Container
DeviceSizeDiffers ==
    /\ method = "Create"
    /\ ret = "nil"
    /\ \E i \in DOMAIN calls : DeviceOp(i)
    /\ DeviceSizeNow # args.size

\* the alignment ran to its end: the FlexVol was resized and read again
ReRead ==
    /\ Len(calls) >= 2
    /\ calls[Len(calls) - 1].api = "VolumeSetSize"
    /\ calls[Len(calls) - 1].answer = "passed"
    /\ calls[Len(calls)].api = "VolumeSize"
    /\ calls[Len(calls)].answer = "passed"

\* C12 as claimed: after a successful Create whose Device came out with a
\* size other than its Container's, the reported size is the size of the
\* Container as resized, and not the requested size.
C12_CreateReportsContainerSize ==
    DeviceSizeDiffers
        => (volConfigSize = SizeNow /\ volConfigSize # args.size)

\* C12 as amended: that holds when the alignment ran to its end (size read,
\* Container resize, second read all answered); when the Container resize
\* was refused the reported size is the size of the Container as it was
\* read (and still is), and when a read failed it stays the requested size.
C12_CreateReportsReReadSize ==
    DeviceSizeDiffers
        => volConfigSize =
               IF ReRead THEN SizeNow
               ELSE IF \E a \in 1..MaxCands :
                          Answered("VolumeSetSize", a, "failed")
               THEN SizeNow
               ELSE args.size

\* the LUN was rounded up and the FlexVol resize rounded once more
C12_Witness ==
    /\ DeviceSizeDiffers
    /\ ReRead
    /\ SizeNow > DeviceSizeNow
    /\ volConfigSize = SizeNow

----------------------------------------------------------------------------
(* C13 *)

\* C13: after a successful Resize that grew the Device and aligned the
\* Container, the reported size is the size of the Container as read again.
C13_ResizeReportsContainerSize ==
    (method = "Resize" /\ ret = "nil" /\ (\E i \in DOMAIN calls : DeviceOp(i))
                       /\ ReRead)
        => volConfigSize = SizeNow

----------------------------------------------------------------------------
(* C14 *)

\* caller p returns from Destroy in this step
DestroyReturns(p) ==
    /\ procs[p].op = "Destroy"
    /\ procs[p].pc # "done"
    /\ procs'[p].pc = "done"

\* C14: a Destroy that found the Container at its probe and issued the
\* delete returns success exactly when the delete passed or was answered
\* "does not exist", and an error for every other answer; and at every
\* successful return of Destroy no Container of the name exists.
C14_DestroyDeleteResults ==
    [][\A p \in Callers :
          DestroyReturns(p)
              => /\ procs[p].pc = "VolumeDestroy"
                     => /\ procs[p].probed
                        /\ procs'[p].ret = "nil"
                               <=> procs'[p].last.answer
                                       \in {"passed", "EVOLUMEDOESNOTEXIST"}
                        /\ procs'[p].ret \in {"nil", "error destroying volume"}
                 /\ procs'[p].ret = "nil"
                     => ~VolumeExists(vols', procs[p].name)]_vars

\* a Destroy that saw the Container at its probe and lost it to the other
\* caller before its delete
C14_Witness ==
    \E p \in Callers :
        /\ procs[p].op = "Destroy"
        /\ procs[p].pc = "done"
        /\ procs[p].probed
        /\ procs[p].last = [api |-> "VolumeDestroy",
                            answer |-> "EVOLUMEDOESNOTEXIST"]
        /\ procs[p].ret = "nil"

----------------------------------------------------------------------------
(* C15 *)

BothRun(op) == \A p \in Callers : procs[p].op = op

OnePair(n) ==
    /\ Cardinality({v \in vols : v.name = n}) <= 1
    /\ Cardinality({l \in luns : l.vol = n}) <= 1

\* the caller's Container creation met the name taken by the other caller
LostRace(p) ==
    /\ procs[p].pc = "done"
    /\ procs[p].taken
    /\ ~procs[p].created

\* C15 as claimed: of two Creates for one name that run at the same time,
\* at most one Container and one Device come to be, and the call whose
\* Container creation finds the name taken returns success.
C15_RacingCreatesBothSucceed ==
    BothRun("Create")
        => /\ \A n \in Names : OnePair(n)
           /\ \A p \in Callers : LostRace(p) => procs[p].ret = "nil"

\* C15 as amended: at most one Container and one Device come to be; the
\* call that did not make the Container returns success exactly when its
\* Container creation is answered "Job exists", the volume-exists error when
\* its probe finds the Container, and the aggregated failure with one entry
\* per candidate when its last candidate was refused.
C15_RacingCreatesConverge ==
    BothRun("Create")
        => /\ \A n \in Names : OnePair(n)
           /\ \A p \in Callers :
                 (procs[p].pc = "done" /\ ~procs[p].created)
                     => /\ procs[p].ret = "nil"
                            <=> procs[p].last = [api |-> "VolumeCreate",
                                                 answer |-> "JobExists"]
                        /\ procs[p].probed
                            => procs[p].ret = "VolumeExistsError"
                        /\ (procs[p].last.answer = "failed"
                              /\ procs[p].last.api
                                    \in {"VolumeCreate", "checkAggregateLimits"})
                            => /\ procs[p].ret = "BackendIneligibleError"
                               /\ procs[p].errs = procs[p].cands

\* both probes found the name free, one caller made Container and Device,
\* the other was answered "Job exists"
C15_Witness ==
    /\ BothRun("Create")
    /\ \E p, q \in Callers :
          /\ LostRace(p)
          /\ ~procs[p].probed
          /\ procs[p].last = [api |-> "VolumeCreate", answer |-> "JobExists"]
          /\ procs[p].ret = "nil"
          /\ procs[q].pc = "done"
          /\ procs[q].created
          /\ procs[q].ret = "nil"
          /\ \E l \in luns : l.vol = procs[q].name

----------------------------------------------------------------------------
(* C16 *)

\* both callers ran Destroy, both probes found the Container, and no remote
\* call of either failed for a reason of its own
BothDestroyed ==
    /\ BothRun("Destroy")
    /\ \A p \in Callers :
          procs[p].pc = "done" /\ procs[p].probed /\ ~procs[p].faulted

\* C16: two Destroys of one existing name that run at the same time, both
\* past the probe before either deletes, both return success and leave no
\* Container (no call failing for another reason than the volume being
\* gone).
C16_RacingDestroysSucceed ==
    BothDestroyed
        => /\ \A p \in Callers : procs[p].ret = "nil"
           /\ \A p \in Callers : ~VolumeExists(vols, procs[p].name)

\* one caller's delete passed, the other's was answered "does not exist"
C16_Witness ==
    /\ BothDestroyed
    /\ driverContext = "docker"
    /\ \E p, q \in Callers :
          /\ procs[p].last = [api |-> "VolumeDestroy", answer |-> "passed"]
          /\ procs[q].last = [api |-> "VolumeDestroy",
                              answer |-> "EVOLUMEDOESNOTEXIST"]
          /\ procs[q].signalled

----------------------------------------------------------------------------
(* C17 *)

\* the FlexVol and the LUN that Import was asked to adopt, as they were
\* when it was called
ImportRead ==
    /\ method = "Import"
    /\ \E i \in DOMAIN calls :
          calls[i] = [api |-> "LunGet", cand |-> 0, answer |-> "passed"]

VolumeBefore == CHOOSE v \in pre.vols : v.name = args.originalName

LunBefore == CHOOSE l \in pre.luns : l.vol = args.originalName

\* C17: an unmanaged Import issues no rename and no other mutating call and
\* leaves the names as they are; it succeeds only for a Device that sits at
\* /vol/<originalName>/lun0 and is mapped.
C17_UnmanagedImportValidates ==
    (method = "Import" /\ args.notManaged)
        => /\ NoMutatingCall
           /\ ControllerUnchanged
           /\ ret = "nil"
               => /\ ImportRead
                  /\ LunBefore.lun = "lun0"
                  /\ LunBefore.mapped = "true"

----------------------------------------------------------------------------
(* C18 *)

\* C18: Import succeeds only for a Container of type rw with its Device
\* online, and then reports the size of the Device; when either is not
\* established it returns an error and renames nothing.
C18_ImportValidates ==
    ImportRead
        => /\ ret = "nil"
               => /\ VolumeBefore.type = "rw"
                  /\ LunBefore.online = "true"
                  /\ volConfigSize = LunBefore.size
           /\ (VolumeBefore.type # "rw" \/ LunBefore.online # "true")
               => (ret # "nil" /\ NoMutatingCall /\ ControllerUnchanged)

----------------------------------------------------------------------------
(* C19 *)

\* all that was written to the channel so far, in order
Sent == channel.received \o channel.buf

\* C19: when a bulk call of GetVolumeExternalWrappers failed, what is
\* written to the channel is one element that carries that error and no
\* volume, written before the channel is closed, and nothing else; the
\* channel is closed when the method is through.
C19_BulkFailureSoleElement ==
    enumerate.error # "nil"
        => /\ Len(Sent) <= 1
           /\ \A i \in DOMAIN Sent :
                  Sent[i] = [Volume |-> <<>>, Error |-> enumerate.error]
           /\ channel.closed => Len(Sent) = 1
           /\ enumerate.pc = "done" => channel.closed

\* the list of LUNs failed after the list of FlexVols was read: the caller
\* received the error and found the channel closed
C19_Witness ==
    /\ enumerate.pc = "done"
    /\ enumerate.error = "LunGetAll failed"
    /\ enumerate.volumeMap # {}
    /\ channel.closed
    /\ channel.buf = <<>>
    /\ channel.received = <<[Volume |-> <<>>, Error |-> "LunGetAll failed"]>>

----------------------------------------------------------------------------
(* C20 *)

\* number of calls of this api made for this candidate
CallsFor(api, aggregate) ==
    Cardinality({i \in DOMAIN calls :
                    calls[i].api = api /\ calls[i].cand = aggregate})

\* C20: when the creation of the Device fails on a candidate whose Container
\* was made, Create leaves that Container where it is, records one error
\* for the candidate, makes no second attempt on it and goes on to the next
\* candidate: that one's limit check comes next, and its Container creation
\* under the same name when the check passes.
C20_DeviceFailureAdvances ==
    \A i \in DOMAIN calls :
        (method = "Create" /\ calls[i].api = "LunCreate"
                          /\ calls[i].answer = "failed")
            => LET aggregate == calls[i].cand
                   k == CHOOSE k \in DOMAIN args.cands :
                            args.cands[k] = aggregate
               IN  /\ \E v \in vols : v.name = args.name /\ v.aggr = aggregate
                   /\ \A j \in DOMAIN calls :
                          calls[j].api \notin {"VolumeDestroy", "LunDestroy"}
                   /\ Cardinality({e \in DOMAIN createErrors :
                                      createErrors[e] = aggregate}) = 1
                   /\ CallsFor("VolumeCreate", aggregate) = 1
                   /\ CallsFor("LunCreate", aggregate) = 1
                   /\ IF k = Len(args.cands)
                      THEN i = Len(calls) /\ ret = "BackendIneligibleError"
                      ELSE /\ i < Len(calls)
                           /\ calls[i + 1].api = "checkAggregateLimits"
                           /\ calls[i + 1].cand = args.cands[k + 1]
                           /\ calls[i + 1].answer = "passed"
                                  => /\ i + 1 < Len(calls)
                                     /\ calls[i + 2].api = "VolumeCreate"
                                     /\ calls[i + 2].cand = args.cands[k + 1]

\* the first candidate lost its LUN, the second was asked for the FlexVol
C20_Witness ==
    /\ method = "Create"
    /\ Answered("VolumeCreate", 1, "passed")
    /\ Answered("LunCreate", 1, "failed")
    /\ Answered("VolumeCreate", 2, "failed")
    /\ ExistsNow
    /\ createErrors = <<1, 2>>

----------------------------------------------------------------------------
(* C21 *)

\* the i-th call saved the file system type of the LUN just created, and
\* failed
FsTypeFailed(i) ==
    /\ method = "Create"
    /\ i \in DOMAIN calls
    /\ i > 1
    /\ calls[i].api = "LunSetAttribute"
    /\ calls[i].answer = "failed"
    /\ calls[i - 1].api = "LunCreate"

----------------------------------------------------------------------------
(* C22 *)

\* C22: for a candidate whose aggregate limit check fails, Create issues no
\* mutating call, records one error, and goes on: to the limit check of the
\* next candidate, or to the aggregated failure after the last.
C22_LimitFailureSkipsCandidate ==
    \A i \in DOMAIN calls :
        (method = "Create" /\ calls[i].api = "checkAggregateLimits"
                          /\ calls[i].answer = "failed")
            => LET aggregate == calls[i].cand
                   k == CHOOSE k \in DOMAIN args.cands :
                            args.cands[k] = aggregate
               IN  /\ \A j \in DOMAIN calls :
                          calls[j].cand = aggregate => ~Mutating(calls[j])
                   /\ CallsFor("checkAggregateLimits", aggregate) = 1
                   /\ Cardinality({e \in DOMAIN createErrors :
                                      createErrors[e] = aggregate}) = 1
                   /\ IF k = Len(args.cands)
                      THEN i = Len(calls) /\ ret = "BackendIneligibleError"
                      ELSE /\ i < Len(calls)
                           /\ calls[i + 1].api = "checkAggregateLimits"
                           /\ calls[i + 1].cand = args.cands[k + 1]

\* the first candidate was over its limit, the second got the volume
C22_Witness ==
    /\ method = "Create"
    /\ Answered("checkAggregateLimits", 1, "failed")
    /\ Answered("VolumeCreate", 2, "passed")
    /\ createErrors = <<1>>
    /\ ret = "nil"
    /\ \E v \in vols : v.name = args.name /\ v.aggr = 2

----------------------------------------------------------------------------
(* C23 *)

\* the remote calls by which Resize checks before it changes anything
ResizeChecks == {"VolumeExists", "checkAggregateLimitsForFlexvol",
                 "LunGetGeometry"}

\* a check of Resize failed: the Container is not there (or the probe
\* failed), the aggregate or the size limit is exceeded, the geometry of the
\* LUN could not be read or its ceiling is below the requested size
ResizeCheckFailed ==
    /\ method = "Resize"
    /\ \/ Answered("VolumeExists", 0, "failed")
       \/ ProbeAnswered /\ ~ExistedBefore
       \/ Answered("checkAggregateLimitsForFlexvol", 0, "failed")
       \/ Answered("checkAggregateLimitsForFlexvol", 0, "passed")
            /\ args.size > LimitVolumeSize
       \/ Answered("LunGetGeometry", 0, "failed")
       \/ ret = "larger than LUN's maximum capacity"

\* C23: Resize makes its checks (existence, aggregate limits, size limit,
\* LUN geometry) before its first mutating call, and when one of them fails
\* it returns an error with the sizes of Container and Device unchanged.
C23_ResizeChecksFirst ==
    method = "Resize"
        => /\ \A i, j \in DOMAIN calls :
                  (Mutating(calls[i]) /\ calls[j].api \in ResizeChecks)
                      => j < i
           /\ ResizeCheckFailed
                  => (ret # "nil" /\ NoMutatingCall /\ ControllerUnchanged)

\* the ceiling of the LUN is below the size asked for
C23_Witness ==
    /\ method = "Resize"
    /\ Answered("checkAggregateLimitsForFlexvol", 0, "passed")
    /\ Answered("LunGetGeometry", 0, "passed")
    /\ ret = "larger than LUN's maximum capacity"
    /\ ControllerUnchanged

----------------------------------------------------------------------------
(* C24 *)

\* the i-th call is the resize of the Container to the requested size (not
\* the later one that aligns it with the Device)
ContainerResize(i) ==
    /\ method = "Resize"
    /\ i \in DOMAIN calls
    /\ calls[i].api = "VolumeSetSize"
    /\ \A j \in 1..(i - 1) : calls[j].api # "LunResize"

\* C24: a growing Resize resizes the Container and then the Device; when
\* the Container resize fails it returns an error and the Device resize is
\* not issued; when the Device resize fails it returns an error, the
\* Container stays grown and no alignment step follows.
C24_ContainerThenDevice ==
    \A i \in DOMAIN calls :
        /\ (method = "Resize" /\ calls[i].api = "LunResize")
              => /\ ContainerResize(i - 1)
                 /\ calls[i - 1].answer = "passed"
        /\ (ContainerResize(i) /\ calls[i].answer = "failed")
              => /\ ret = "volume resize failed"
                 /\ i = Len(calls)
                 /\ ControllerUnchanged
        /\ (method = "Resize" /\ calls[i].api = "LunResize"
                              /\ calls[i].answer = "failed")
              => /\ ret = "volume resize failed"
                 /\ i = Len(calls)
                 /\ luns = pre.luns
                 /\ SizeNow >= args.size
                 /\ SizeNow > SizeBefore

\* the Container was grown and the Device resize failed
C24_Witness ==
    /\ method = "Resize"
    /\ Answered("VolumeSetSize", 0, "passed")
    /\ Answered("LunResize", 0, "failed")
    /\ SizeNow > SizeBefore
    /\ ret = "volume resize failed"

----------------------------------------------------------------------------
(* C25 *)

\* C25 as stated: a Create of a size over the limit returns the limit error
\* having issued no remote call at all.
C25_LimitCheckBeforeAnyCall ==
    (method = "Create" /\ args.size > LimitVolumeSize)
        => (ret = "size limit exceeded" /\ calls = <<>>)

\* C25 as the code has it: a Create of a size over the limit issues the
\* probe for an existing volume and no other remote call, changes nothing,
\* and returns the probe's error, the volume-exists error or the limit
\* error, in this order of precedence.
C25_LimitCheckAfterProbe ==
    (method = "Create" /\ args.size > LimitVolumeSize)
        => /\ Len(calls) = 1
           /\ calls[1].api = "VolumeExists"
           /\ NoMutatingCall
           /\ ControllerUnchanged
           /\ ret = IF calls[1].answer = "failed"
                    THEN "error checking for existing volume"
                    ELSE IF ExistedBefore
                    THEN "VolumeExistsError"
                    ELSE "size limit exceeded"

\* the name is free and the size is over the limit
C25_Witness ==
    /\ method = "Create"
    /\ args.size > LimitVolumeSize
    /\ ProbeAnswered
    /\ ~ExistedBefore
    /\ ret = "size limit exceeded"
    /\ Len(calls) = 1

----------------------------------------------------------------------------
(* C26 *)

\* the i-th call of the Import is the rename `api`, answered `answer`
Rename(i, api, answer) ==
    /\ i \in DOMAIN calls
    /\ calls[i] = [api |-> api, cand |-> 0, answer |-> answer]

\* C26: a managed Import renames the Device to /vol/<originalName>/lun0,
\* only when it is not there already, and then the Container; a failed
\* Device rename returns an error with no Container rename and nothing
\* changed; a failed Container rename returns an error; after a successful
\* Import the Device is at /vol/<internalName>/lun0.
C26_ManagedImportRenames ==
    (method = "Import" /\ ~args.notManaged)
        => /\ \A i \in DOMAIN calls :
                /\ calls[i].api = "LunRename" => LunBefore.lun # "lun0"
                /\ calls[i].api = "VolumeRename"
                      => IF LunBefore.lun # "lun0"
                         THEN Rename(i - 1, "LunRename", "passed")
                         ELSE \A j \in DOMAIN calls :
                                  calls[j].api # "LunRename"
                /\ Rename(i, "LunRename", "failed")
                      => /\ ret = "LUN rename failed"
                         /\ i = Len(calls)
                         /\ ControllerUnchanged
                /\ Rename(i, "VolumeRename", "failed")
                      => /\ ret = "volume rename failed"
                         /\ i = Len(calls)
                         /\ vols = pre.vols
           /\ (ImportRead /\ ret = "nil")
                  => /\ Answered("VolumeRename", 0, "passed")
                     /\ ExistsNow
                     /\ luns = {[LunBefore EXCEPT !.vol = args.name,
                                                  !.lun = "lun0"]}

\* a Device found at another path was renamed, and the Container after it
C26_Witness ==
    /\ method = "Import"
    /\ ~args.notManaged
    /\ ret = "nil"
    /\ LunBefore.lun = "lun1"
    /\ Rename(Len(calls) - 1, "LunRename", "passed")
    /\ Rename(Len(calls), "VolumeRename", "passed")
    /\ DeviceNow

----------------------------------------------------------------------------
(* C27 *)

\* the Device of the name was mapped to the igroup when the call started
MappedBefore ==
    \E l \in pre.luns : l.vol = args.name /\ l.lun = "lun0" /\ l.mapped

\* the host was told to prepare for the removal of the Device
Signalled == \E i \in DOMAIN calls : calls[i].api = "PrepareDeviceForRemoval"

\* the delete of the Container was issued
DeleteIssued == \E i \in DOMAIN calls : calls[i].api = "VolumeDestroy"

----------------------------------------------------------------------------
(* C28 *)

\* both bulk calls were answered with their lists
Listed == enumerate.pc \in {"range", "close", "done"} /\ enumerate.error = "nil"

\* the FlexVol of the LUN is in the list of FlexVols
ContainerListed(lun) == \E v \in enumerate.volumeMap : v.name = lun.vol

\* the element written for a listed LUN
RecordOf(lun) ==
    [Volume |-> <<[InternalName |-> lun.vol, Size |-> lun.size,
                   Pool |-> (CHOOSE v \in enumerate.volumeMap :
                                v.name = lun.vol).aggr]>>,
     Error |-> "nil"]

\* one element for each LUN of the list whose FlexVol is listed, in the
\* order of the list
RECURSIVE Records(_)
Records(list) ==
    IF list = <<>> THEN <<>>
    ELSE IF ContainerListed(Head(list))
    THEN <<RecordOf(Head(list))>> \o Records(Tail(list))
    ELSE Records(Tail(list))

\* what was written is what the LUNs looked at so far ask for, all LUNs are
\* looked at before the channel is closed, and it is closed once
EmittedInOrder ==
    Listed
        => /\ Sent = Records(SubSeq(enumerate.lunsResponse, 1,
                                    IF enumerate.pc = "range"
                                    THEN enumerate.i
                                    ELSE Len(enumerate.lunsResponse)))
           /\ channel.closed <=> enumerate.pc = "done"
           /\ channel.closes = IF enumerate.pc = "done" THEN 1 ELSE 0

\* C28: when both bulk calls succeed, GetVolumeExternalWrappers writes one
\* (record, nil) for each listed Device whose Container is in the Container
\* list, in the order of the Device list, nothing for a Device whose
\* Container is missing, and then closes the channel once; as long as the
\* caller keeps receiving, the channel is closed in the end, whichever way
\* the method goes.
C28_EmitsInOrderThenCloses ==
    /\ []EmittedInOrder
    /\ (enumerate.pc # "idle") ~> channel.closed

\* two Devices were listed, one without its Container; the caller received
\* the one record and found the channel closed
C28_Witness ==
    /\ enumerate.pc = "done"
    /\ enumerate.error = "nil"
    /\ Len(enumerate.lunsResponse) = 2
    /\ ~ContainerListed(enumerate.lunsResponse[1])
    /\ ContainerListed(enumerate.lunsResponse[2])
    /\ channel.received = <<RecordOf(enumerate.lunsResponse[2])>>
    /\ channel.buf = <<>>
    /\ channel.closed
    /\ channel.closes = 1

----------------------------------------------------------------------------
(* C29 *)

\* Create returned success for a name that was free when it was called
FreshSuccess ==
    /\ method = "Create"
    /\ ret = "nil"
    /\ ProbeAnswered
    /\ ~ExistedBefore

\* the last call of the Create was a Container creation answered
\* "Job exists"
EndedOnJobExists ==
    /\ calls # <<>>
    /\ calls[Len(calls)].api = "VolumeCreate"
    /\ calls[Len(calls)].answer = "JobExists"

\* C29 as stated: after a successful Create of a name that was free, the
\* Container exists and has its Device at /vol/<name>/lun0.
C29_SuccessMeansDevice == FreshSuccess => (ExistsNow /\ DeviceNow)

\* C29 as the code has it: a successful Create of a name that was free
\* either made the Container and its Device on one candidate, or ended on
\* "Job exists", and then it made no Device at all.
C29_SuccessMeansDeviceUnlessJobExists ==
    FreshSuccess
        => IF EndedOnJobExists
           THEN ~DeviceNow /\ luns = pre.luns
           ELSE /\ ExistsNow
                /\ DeviceNow
                /\ \E aggregate \in 1..MaxCands :
                       /\ Answered("VolumeCreate", aggregate, "passed")
                       /\ Answered("LunCreate", aggregate, "passed")
                       /\ VolumeOf(vols, args.name).aggr = aggregate

\* Container and Device were made on the second candidate
C29_Witness ==
    /\ FreshSuccess
    /\ ~EndedOnJobExists
    /\ Answered("VolumeCreate", 2, "passed")
    /\ Answered("LunCreate", 2, "passed")
    /\ ExistsNow
    /\ DeviceNow

====
